---- MODULE Spec2Model ----
(***************************************************************************)
(* Calibration batches of the handheld camera tool (pi/src): the           *)
(* processing threads of the distortion and perspective windows, the       *)
(* sample directory they read, the settings store they write, and the      *)
(* windows that start them.                                                *)
(***************************************************************************)
EXTENDS Integers, Sequences, FiniteSets, TLC

\* ------------------------------------------------------------------ bounds
\* self.max_samples (15 in the windows), scaled down
MaxSamples == 3
\* processing threads that can be alive at the same time
MaxThreads == 1

\* thread objects that may exist at once while one calibration window is
\* followed through cancelled and repeated series
MaxWindowThreads == 2
\* processing threads started in one execution of the application
MaxRuns == 2
\* points in one marker group
MaxPoints == 2
\* raw tilt, raw yaw and residual rotations, in degrees, up to this size
MaxAngle == 2
\* projected corner coordinates, in half pixels, up to this size
MaxCoord == 1
\* configured checkerboard boxes per dimension
MaxBoxes == 4

\* --------------------------------------------------------- program constants
\* rectifyHelper.py:60 / :116  "if successful_images < 3"
MinSuccessful == 3
\* caliPerspective.py:374  "stored_yaw = float(yaw_deg + 180.0)"
HalfTurn == 180
\* caliPerspective.py:405  "pad = 20"
Pad == 20
\* caliOffset.py:347  "max_x + tx + 10"
CanvasMargin == 10
\* appSettings.py:46  {"x": 11, "y": 8}
DefaultBoxesX == 11
DefaultBoxesY == 8

VARIABLES
    files,      \* sample directory: index -> "none" | "bad" | "good"
    threads,    \* processing threads: slot -> thread record
    win,        \* the view shown in the main window
    store,      \* settings file: camera id -> profile, or NoProfile
    persisted,  \* settings file: the id of the "active_camera" entry
    active,     \* appSettings._ACTIVE_CAMERA_ID (with its index)
    dv,         \* device settings window
    dw,         \* distortion calibration window
    pw,         \* perspective calibration window
    runs,       \* processing threads started so far
    lastWrite,  \* the last write of a camera profile to the settings file
    legacy,     \* res/camera_settings.json, the file the tools work on
    core        \* one call of a helper function: its input and its outcome

appVars ==
    <<win, store, persisted, active, dv, dw, pw, runs, lastWrite, legacy,
      core>>

vars ==
    <<files, threads, win, store, persisted, active, dv, dw, pw, runs,
      lastWrite, legacy, core>>

Samples == 1..MaxSamples
\* the slots that hold the thread objects
Threads == DOMAIN threads

\* content of sample_NN.jpg: no file (or unreadable), a picture without a
\* detectable pattern, a picture with a detectable pattern
FileKinds == {"none", "bad", "good"}

\* what a solver may return: a camera matrix, or a tilt/yaw/scale triple
Results == {1, 2}

\* --------------------------------------------------------------- signals
ProgressEvent == [type |-> "progress", success |-> FALSE, count |-> 0]

CompleteEvent(ok, n) == [type |-> "complete", success |-> ok, count |-> n]

\* -------------------------------------------------------- thread records
IdleThread ==
    [pc |-> "idle", kind |-> "dist", copy |-> "helper", matrix |-> FALSE,
     i |-> 0, successful_images |-> 0, imgpoints |-> <<>>,
     solverCalls |-> 0, solved |-> 0, result |-> 0, attached |-> FALSE,
     events |-> <<>>, run |-> 0, stale |-> FALSE]

\* ProcessingThread.__init__: the arguments are stored, nothing runs yet
NewThread(kind, copy, matrix) ==
    [IdleThread EXCEPT !.pc = "begin", !.kind = kind, !.copy = copy,
                       !.matrix = matrix, !.attached = TRUE]

Last(s) == s[Len(s)]

Emit(th, ev) == [th EXCEPT !.events = Append(@, ev)]

RaiseInRunSilent(th) == [th EXCEPT !.pc = "done"]

\* the except-branch of run(): the distortion threads report the error text
\* first, every thread then reports failure with a count of 0
RaiseInRun(th) ==
    LET t1 == IF th.kind = "dist" THEN Emit(th, ProgressEvent) ELSE th
    IN  [Emit(t1, CompleteEvent(FALSE, 0)) EXCEPT !.pc = "done"]

\* find_checkerboard_corners: found iff some candidate size is detected
find_checkerboard_corners(img) == img = "good"

BelowMinimumLax(n) == n < MinSuccessful - 1

\* "if successful_images < 3"
BelowMinimum(n) == n < MinSuccessful

NoPoseLax(k) == FALSE

\* "if len(rvecs_list) == 0"
NoPose(k) == k = 0

\* --------------------------------------------------------- thread steps
\* run(): the first statement of the try block
RunBegin(th) ==
    LET t1 == IF th.copy = "helper" THEN Emit(th, ProgressEvent) ELSE th
    IN  [t1 EXCEPT !.pc = "loop", !.i = 1]

LoopStepSkipOnMiss(th, img) ==
    LET t0 == IF th.copy = "legacy" THEN Emit(th, ProgressEvent) ELSE th
        nxt == IF th.i >= MaxSamples THEN "check" ELSE "loop"
    IN  IF img = "none"
        THEN [t0 EXCEPT !.i = @ + 1, !.pc = nxt]
        ELSE IF th.kind = "persp" /\ th.copy = "legacy" /\ ~th.matrix
        THEN RaiseInRun(t0)
        ELSE IF find_checkerboard_corners(img)
        THEN [t0 EXCEPT !.imgpoints = Append(@, th.i),
                        !.successful_images = @ + 1,
                        !.i = @ + 1, !.pc = nxt]
        ELSE [t0 EXCEPT !.i = MaxSamples + 1, !.pc = "check"]

\* one iteration of "for i in range(1, max_samples + 1)"
LoopStep(th, img) ==
    LET t0 == IF th.copy = "legacy" THEN Emit(th, ProgressEvent) ELSE th
        nxt == IF th.i >= MaxSamples THEN "check" ELSE "loop"
    IN  IF img = "none"
        THEN [t0 EXCEPT !.i = @ + 1, !.pc = nxt]
        ELSE IF th.kind = "persp" /\ th.copy = "legacy" /\ ~th.matrix
        THEN RaiseInRun(t0)        \* cv2.undistort(img, None, None) raises
        ELSE IF find_checkerboard_corners(img)
        THEN [t0 EXCEPT !.imgpoints = Append(@, th.i),
                        !.successful_images = @ + 1,
                        !.i = @ + 1, !.pc = nxt]
        ELSE [t0 EXCEPT !.i = @ + 1, !.pc = nxt]

\* the test after the loop
Threshold(th) ==
    LET t0 == IF th.kind = "persp" /\ th.copy = "legacy"
              THEN Emit(th, ProgressEvent) ELSE th
    IN  IF BelowMinimum(th.successful_images)
        THEN LET t1 == IF th.kind = "dist" THEN Emit(t0, ProgressEvent) ELSE t0
             IN  [Emit(t1, CompleteEvent(FALSE, th.successful_images))
                    EXCEPT !.pc = "done"]
        ELSE [t0 EXCEPT !.pc = "solve"]

\* cv2.calibrateCamera over the accepted samples: returns the camera
\* matrix r, or raises
SolveIntrinsic(th, r, raises) ==
    LET t0 == IF th.copy = "legacy" THEN Emit(th, ProgressEvent) ELSE th
        t1 == [t0 EXCEPT !.solverCalls = @ + 1]
    IN  IF raises
        THEN RaiseInRun(t1)
        ELSE [Emit(t1, CompleteEvent(TRUE, th.successful_images))
                EXCEPT !.pc = "done", !.result = r]

\* cv2.solvePnP on each accepted sample: k of them solve and give the tilt
\* r; without a camera matrix the call raises
SolvePoses(th, k, r, raises) ==
    IF raises \/ ~th.matrix
    THEN RaiseInRun(th)
    ELSE LET t1 == [th EXCEPT !.solved = k]
         IN  IF NoPose(k)
             THEN [Emit(t1, CompleteEvent(FALSE, th.successful_images))
                     EXCEPT !.pc = "done"]
             ELSE [Emit(t1, CompleteEvent(TRUE, th.successful_images))
                     EXCEPT !.pc = "done", !.result = r]

\* ------------------------------------------------------ thread actions
ThreadBegin(t) ==
    /\ threads[t].pc = "begin"
    /\ threads' = [threads EXCEPT ![t] = RunBegin(@)]
    /\ UNCHANGED <<files, appVars>>

ThreadLoop(t) ==
    /\ threads[t].pc = "loop"
    /\ threads' = [threads EXCEPT ![t] = LoopStep(@, files[threads[t].i])]
    /\ UNCHANGED <<files, appVars>>

ThreadThreshold(t) ==
    /\ threads[t].pc = "check"
    /\ threads' = [threads EXCEPT ![t] = Threshold(@)]
    /\ UNCHANGED <<files, appVars>>

ThreadSolve(t) ==
    /\ threads[t].pc = "solve"
    /\ \E raises \in BOOLEAN, k \in 0..MaxSamples, r \in Results :
         /\ k <= threads[t].successful_images
         /\ threads' = [threads EXCEPT ![t] =
                IF @.kind = "dist" THEN SolveIntrinsic(@, r, raises)
                                   ELSE SolvePoses(@, k, r, raises)]
    /\ UNCHANGED <<files, appVars>>

\* ------------------------------------------------------- settings store
Cams == {"camA", "camB"}

\* the connected cameras in the order of /dev/video0, /dev/video1
Devices == <<"camA", "camB">>

NoCam == "nocam"

\* a (format, resolution, fps) triple of the device window
Modes == {"m1", "m2"}

\* the first format/resolution/fps the camera reports
DefaultMode == "m1"

NoPerspective == [tilt |-> 0, translate |-> 0]

\* what a write did to the profile of a camera: the handler that wrote it and
\* the calibration block before the write
Written(op, c, st) ==
    [op |-> op, cam |-> c, geometric |-> st[c].geometric,
     perspective |-> st[c].perspective]

NothingWritten ==
    [op |-> "none", cam |-> "nocam", geometric |-> 0,
     perspective |-> NoPerspective]

\* a camera id that is no key of the settings file
NoProfile ==
    [present |-> FALSE, mode |-> DefaultMode, geometric |-> 0,
     perspective |-> NoPerspective]

\* translate_x/translate_y: computed from the stored tilt/yaw and the
\* camera matrix; (0, 0) when there is no camera matrix
Translate(tilt, mat) == IF mat = 0 THEN 0 ELSE 10 + mat

HasSettings(st, c) == c # NoCam /\ st[c].present

\* "for i in devices: if cam_id in saved_settings"
FirstWithSettings(st) ==
    IF HasSettings(st, Devices[1]) THEN Devices[1]
    ELSE IF HasSettings(st, Devices[2]) THEN Devices[2]
    ELSE NoCam

CriticalChangeAlways(existing, mode) == TRUE

\* format_changed or resolution_changed or fps_changed
CriticalChange(existing, mode) == ~existing.present \/ existing.mode # mode

\* appSettings.save_current_camera_settings: the camera's entry afterwards
save_current_camera_settings(st, c, mode) ==
    [st EXCEPT ![c] =
        IF CriticalChange(st[c], mode)
        THEN [present |-> TRUE, mode |-> mode, geometric |-> 0,
              perspective |-> NoPerspective]
        ELSE [present |-> TRUE, mode |-> mode, geometric |-> st[c].geometric,
              perspective |-> st[c].perspective]]

\* camera.update_active_camera_info: the camera it returns
update_active_camera_info(st, pers) ==
    IF pers # NoCam THEN pers ELSE Devices[1]

\* ... and the camera it makes active on the way (step 2)
ActiveAfterInfo(st, pers, cur) ==
    IF pers = NoCam /\ HasSettings(st, Devices[1]) THEN Devices[1] ELSE cur

\* Camera.open(): the camera whose settings the wrapper holds
CameraOpenId(st, act) == IF act # NoCam THEN act ELSE FirstWithSettings(st)

\* ------------------------------------------------------------- windows
ClosedDevice == [camera |-> NoCam, mode |-> DefaultMode, previous |-> NoCam]

ClosedDistortion ==
    [camera_id |-> NoCam, current_sample |-> 0, camera_matrix |-> 0,
     bSample |-> FALSE, bExit |-> FALSE, bUndo |-> FALSE,
     dialog |-> FALSE, bAccept |-> FALSE, pending |-> FALSE]

ClosedPerspective ==
    [camera_matrix |-> 0, sample_count |-> 0, auto_capture_active |-> FALSE,
     bStart |-> FALSE, dialog |-> FALSE, bAccept |-> FALSE, opened |-> FALSE]

\* CalibrationSelectWindow.update_camera_status: the buttons it enables
bCDistortion == HasSettings(store, update_active_camera_info(store, persisted))

bCPerspective ==
    /\ HasSettings(store, update_active_camera_info(store, persisted))
    /\ store[update_active_camera_info(store, persisted)].geometric # 0

\* MainApp.show_calibration_select_view after a handler left the store st,
\* the active_camera entry p and the runtime selection a
ShowSelect(st, p, a) ==
    /\ win' = "select"
    /\ store' = st
    /\ persisted' = ActiveAfterInfo(st, p, p)
    /\ active' = ActiveAfterInfo(st, p, a)

\* ------------------------------------------------- device settings window
\* SettingsWindow.__init__ with auto_load_camera_with_settings
DeviceOpen ==
    /\ win = "select"
    /\ win' = "device"
    /\ LET c == IF HasSettings(store, persisted) THEN persisted
                ELSE FirstWithSettings(store)
       IN  dv' = [camera |-> c,
                  mode |-> IF c = NoCam THEN DefaultMode ELSE store[c].mode,
                  previous |-> active]
    /\ UNCHANGED <<files, threads, store, persisted, active, dw, pw, runs,
                   lastWrite, legacy, core>>

DeviceSelectGlobal(c) ==
    /\ win = "device"
    /\ dv' = [dv EXCEPT !.camera = c,
                        !.mode = IF store[c].present THEN store[c].mode
                                 ELSE DefaultMode]
    /\ active' = c
    /\ UNCHANGED <<files, threads, win, store, persisted, dw, pw,
                   runs, lastWrite, legacy, core>>

\* on_tree_item_clicked on a device item
DeviceSelect(c) ==
    /\ win = "device"
    /\ dv' = [dv EXCEPT !.camera = c,
                        !.mode = IF store[c].present THEN store[c].mode
                                 ELSE DefaultMode]
    /\ UNCHANGED <<files, threads, win, store, persisted, active, dw, pw,
                   runs, lastWrite, legacy, core>>

\* on_tree_item_clicked on a format, resolution or fps item
DeviceSetMode(m) ==
    /\ win = "device"
    /\ dv' = [dv EXCEPT !.mode = m]
    /\ UNCHANGED <<files, threads, win, store, persisted, active, dw, pw,
                   runs, lastWrite, legacy, core>>

SettingsWindow_on_ok_clicked ==
    /\ win = "device"
    /\ IF dv.camera # NoCam
       THEN /\ ShowSelect(save_current_camera_settings(store, dv.camera,
                                                       dv.mode),
                          dv.camera, dv.camera)
            /\ lastWrite' = Written("on_ok_clicked", dv.camera, store)
       ELSE /\ ShowSelect(store, persisted, active)
            /\ lastWrite' = lastWrite
    /\ dv' = ClosedDevice
    /\ UNCHANGED <<files, threads, dw, pw, runs, legacy, core>>

SettingsWindow_on_cancel_clicked ==
    /\ win = "device"
    /\ IF dv.previous # NoCam
       THEN ShowSelect(store, dv.previous, dv.previous)
       ELSE ShowSelect(store, persisted, active)
    /\ dv' = ClosedDevice
    /\ UNCHANGED <<files, threads, dw, pw, runs, lastWrite, legacy, core>>

\* res/camera_settings.json as an earlier version of the application left
\* it: the profile of its selected_camera, with a perspective record that
\* has no translate_x/translate_y yet
LegacyFile ==
    [selected |-> "camA", geometric |-> 1,
     perspective |-> [tilt |-> 1, translate |-> 0]]

compute_translate_and_tilt ==
    /\ legacy.selected # NoCam
    /\ legacy.perspective # NoPerspective
    /\ legacy' = [legacy EXCEPT !.perspective =
                     [tilt |-> 2,
                      translate |-> Translate(2, legacy.geometric)]]
    /\ UNCHANGED <<files, threads, win, store, persisted, active, dv, dw, pw,
                   runs, lastWrite, core>>

\* tools/compute_translate.py
compute_translate ==
    /\ legacy.selected # NoCam
    /\ legacy.perspective # NoPerspective
    /\ legacy' = [legacy EXCEPT !.perspective.translate =
                     Translate(legacy.perspective.tilt, legacy.geometric)]
    /\ UNCHANGED <<files, threads, win, store, persisted, active, dv, dw, pw,
                   runs, lastWrite, core>>

\* ------------------------------------------------- threads and windows
FreeSlots == {t \in Threads : threads[t].pc = "idle"}

\* the thread object a start_processing_thread call creates
\* (run: its number among the threads started)
StartThread(kind, matrix) ==
    [threads EXCEPT ![CHOOSE t \in FreeSlots : \A u \in FreeSlots : t <= u] =
        [NewThread(kind, "helper", matrix) EXCEPT !.run = runs + 1]]

DetachedAndStopped(ths) == [t \in Threads |-> IdleThread]

\* setCentralWidget deletes the window that was shown: the signals of its
\* threads are not delivered any more
Detached(ths) == [t \in Threads |-> [ths[t] EXCEPT !.attached = FALSE]]

EmptyDirectory == [j \in Samples |-> "none"]

\* a capture series begins while threads are still reading the directory:
\* what they read from now on belongs to the new series
NewSeries(ths) ==
    [t \in DOMAIN ths |->
        IF ths[t].pc \in {"begin", "loop"}
        THEN [ths[t] EXCEPT !.stale = TRUE] ELSE ths[t]]

\* a finished thread whose window is gone
ThreadFinished(t) ==
    /\ threads[t].pc = "done"
    /\ ~threads[t].attached
    /\ threads' = [threads EXCEPT ![t] = IdleThread]
    /\ UNCHANGED <<files, appVars>>

\* ---------------------------------------------------- distortion window
\* CalibrationDistortionWindow.__init__
DistortionOpen ==
    /\ win = "select"
    /\ bCDistortion
    /\ win' = "distortion"
    /\ dw' = [ClosedDistortion EXCEPT
                 !.camera_id = CameraOpenId(store, active),
                 !.bSample = TRUE, !.bExit = TRUE, !.bUndo = TRUE]
    /\ UNCHANGED <<files, threads, store, persisted, active, dv, pw, runs,
                   lastWrite, legacy, core>>

\* the buttons and the timer of show_processing_dialog
show_processing_dialog(d) ==
    [d EXCEPT !.bExit = FALSE, !.bSample = FALSE, !.bUndo = FALSE,
              !.dialog = TRUE, !.bAccept = FALSE, !.pending = TRUE]

\* img = "none": camera.read() gave no frame
on_sample_clicked(img) ==
    /\ win = "distortion"
    /\ dw.bSample
    /\ LET f1 == IF dw.current_sample = 0 THEN EmptyDirectory ELSE files
           n == dw.current_sample + 1
           d1 == [dw EXCEPT !.current_sample = n, !.bUndo = TRUE]
       IN  IF dw.current_sample >= MaxSamples \/ img = "none"
           THEN files' = f1 /\ dw' = dw
           ELSE /\ files' = [f1 EXCEPT ![n] = img]
                /\ dw' = IF n >= MaxSamples THEN show_processing_dialog(d1)
                                             ELSE d1
    /\ threads' = IF dw.current_sample = 0 THEN NewSeries(threads)
                                            ELSE threads
    /\ UNCHANGED <<win, store, persisted, active, dv, pw, runs,
                   lastWrite, legacy, core>>

on_undo_clicked ==
    /\ win = "distortion"
    /\ dw.bUndo
    /\ dw.current_sample > 0
    /\ files' = [files EXCEPT ![dw.current_sample] = "none"]
    /\ dw' = [dw EXCEPT !.current_sample = @ - 1,
                        !.bUndo = (dw.current_sample - 1 # 0)]
    /\ UNCHANGED <<threads, win, store, persisted, active, dv, pw, runs,
                   lastWrite, legacy, core>>

\* the single-shot timer of show_processing_dialog fires
Distortion_start_processing_thread ==
    /\ win = "distortion"
    /\ dw.pending
    /\ FreeSlots # {}
    /\ runs < MaxRuns
    /\ threads' = StartThread("dist", FALSE)
    /\ runs' = runs + 1
    /\ dw' = [dw EXCEPT !.pending = FALSE]
    /\ UNCHANGED <<files, win, store, persisted, active, dv, pw, lastWrite,
                   legacy, core>>

\* processing_complete of thread t reaches the window
Distortion_on_processing_complete(t) ==
    /\ threads[t].pc = "done"
    /\ threads[t].attached
    /\ threads[t].kind = "dist"
    /\ dw' = IF Last(threads[t].events).success
             THEN [dw EXCEPT !.camera_matrix = threads[t].result,
                             !.bAccept = TRUE]
             ELSE [dw EXCEPT !.bAccept = FALSE]
    /\ threads' = [threads EXCEPT ![t] = IdleThread]
    /\ UNCHANGED <<files, win, store, persisted, active, dv, pw, runs,
                   lastWrite, legacy, core>>

Distortion_on_accept_clicked ==
    /\ win = "distortion"
    /\ dw.dialog
    /\ dw.bAccept
    /\ IF HasSettings(store, dw.camera_id) /\ dw.camera_matrix # 0
       THEN /\ ShowSelect([store EXCEPT ![dw.camera_id].geometric =
                              dw.camera_matrix], persisted, active)
            /\ dw' = ClosedDistortion
            /\ threads' = Detached(threads)
            /\ lastWrite' = Written("on_accept_clicked", dw.camera_id, store)
       ELSE UNCHANGED <<threads, win, store, persisted, active, dw,
                        lastWrite>>
    /\ UNCHANGED <<files, dv, pw, runs, legacy, core>>

Distortion_on_cancel_clicked_cleanup ==
    /\ win = "distortion"
    /\ dw.dialog
    /\ files' = EmptyDirectory
    /\ dw' = [dw EXCEPT !.current_sample = 0, !.camera_matrix = 0,
                        !.dialog = FALSE, !.bExit = TRUE, !.bSample = TRUE,
                        !.bUndo = FALSE]
    /\ UNCHANGED <<threads, win, store, persisted, active, dv, pw, runs,
                   lastWrite, legacy, core>>

\* "Reset Daten (aber Fotos NICHT loeschen!)"
Distortion_on_cancel_clicked ==
    /\ win = "distortion"
    /\ dw.dialog
    /\ dw' = [dw EXCEPT !.current_sample = 0, !.camera_matrix = 0,
                        !.dialog = FALSE, !.bExit = TRUE, !.bSample = TRUE,
                        !.bUndo = FALSE]
    /\ UNCHANGED <<files, threads, win, store, persisted, active, dv, pw,
                   runs, lastWrite, legacy, core>>

Distortion_on_exit_clicked ==
    /\ win = "distortion"
    /\ dw.bExit
    /\ ShowSelect(store, persisted, active)
    /\ dw' = ClosedDistortion
    /\ threads' = Detached(threads)
    /\ UNCHANGED <<files, dv, pw, runs, lastWrite, legacy, core>>

\* no helper function is being called
NoCall == [fn |-> "none", arg |-> <<>>, out |-> [kind |-> "none"]]

\* ------------------------------------------------- one batch, all inputs
InitApp ==
    /\ win = "select"
    /\ store = [c \in Cams |-> NoProfile]
    /\ persisted = NoCam
    /\ active = NoCam
    /\ dv = ClosedDevice
    /\ dw = ClosedDistortion
    /\ pw = ClosedPerspective
    /\ runs = 0
    /\ lastWrite = NothingWritten
    /\ legacy = LegacyFile
    /\ core = NoCall

InitBatch ==
    /\ InitApp
    /\ files \in [Samples -> FileKinds]
    /\ \E kind \in {"dist", "persp"}, copy \in {"helper", "legacy"},
          matrix \in BOOLEAN :
         threads = [t \in 1..MaxThreads |->
                      IF t = 1 THEN NewThread(kind, copy, matrix)
                               ELSE IdleThread]

NextBatch ==
    \/ ThreadBegin(1)
    \/ ThreadLoop(1)
    \/ ThreadThreshold(1)
    \/ ThreadSolve(1)

SpecBatch == InitBatch /\ [][NextBatch]_vars

\* --------------------------------------------------- perspective window
\* load_distortion_coefficients: the camera matrix it leaves in the window
load_distortion_coefficients(st, act) ==
    IF CameraOpenId(st, act) # NoCam /\ st[CameraOpenId(st, act)].geometric # 0
    THEN st[CameraOpenId(st, act)].geometric
    ELSE IF FirstWithSettings(st) # NoCam
    THEN st[FirstWithSettings(st)].geometric
    ELSE 0

\* CalibrationPerspectiveWindow.__init__; Camera.open() succeeds or fails
PerspectiveOpen ==
    /\ win = "select"
    /\ bCPerspective
    /\ win' = "perspective"
    /\ \E ok \in BOOLEAN :
         pw' = [ClosedPerspective EXCEPT
                  !.camera_matrix = load_distortion_coefficients(store, active),
                  !.bStart = TRUE, !.opened = ok]
    /\ UNCHANGED <<files, threads, store, persisted, active, dv, dw, runs,
                   lastWrite, legacy, core>>

on_start_clicked ==
    /\ win = "perspective"
    /\ pw.bStart
    /\ ~pw.auto_capture_active
    /\ files' = EmptyDirectory
    /\ pw' = [pw EXCEPT !.sample_count = 0, !.bStart = FALSE,
                        !.auto_capture_active = TRUE]
    /\ threads' = NewSeries(threads)
    /\ UNCHANGED <<win, store, persisted, active, dv, dw, runs,
                   lastWrite, legacy, core>>

\* on_auto_capture_tick while samples are missing; img = "none":
\* camera.read() gave no frame, as it always does when the camera is not open
AutoCaptureSample(img) ==
    /\ win = "perspective"
    /\ pw.auto_capture_active
    /\ pw.sample_count < MaxSamples
    /\ IF img = "none" \/ ~pw.opened
       THEN UNCHANGED <<files, pw>>
       ELSE /\ files' = [files EXCEPT ![pw.sample_count + 1] = img]
            /\ pw' = [pw EXCEPT !.sample_count = @ + 1]
    /\ UNCHANGED <<threads, win, store, persisted, active, dv, dw, runs,
                   lastWrite, legacy, core>>

\* on_auto_capture_tick after the last sample: start_processing_thread
Perspective_start_processing_thread ==
    /\ win = "perspective"
    /\ pw.auto_capture_active
    /\ pw.sample_count >= MaxSamples
    /\ FreeSlots # {}
    /\ runs < MaxRuns
    /\ threads' = StartThread("persp", pw.camera_matrix # 0)
    /\ runs' = runs + 1
    /\ pw' = [pw EXCEPT !.auto_capture_active = FALSE, !.dialog = TRUE,
                        !.bAccept = FALSE]
    /\ UNCHANGED <<files, win, store, persisted, active, dv, dw, lastWrite,
                   legacy, core>>

\* the perspective record on_processing_complete writes for camera c
PerspectiveRecord(st, c, tilt, mat) ==
    [tilt |-> -tilt,
     translate |-> Translate(tilt, IF st[c].geometric # 0 THEN st[c].geometric
                                                           ELSE mat)]

\* processing_complete of thread t reaches the window
Perspective_on_processing_complete(t) ==
    /\ threads[t].pc = "done"
    /\ threads[t].attached
    /\ threads[t].kind = "persp"
    /\ threads' = [threads EXCEPT ![t] = IdleThread]
    /\ IF ~pw.dialog
       THEN UNCHANGED <<store, pw, lastWrite>>
       ELSE IF Last(threads[t].events).success
       THEN /\ pw' = [pw EXCEPT !.bAccept = TRUE]
            /\ IF FirstWithSettings(store) = NoCam
               THEN UNCHANGED <<store, lastWrite>>
               ELSE /\ store' =
                         [store EXCEPT ![FirstWithSettings(store)].perspective =
                            PerspectiveRecord(store, FirstWithSettings(store),
                                              threads[t].result,
                                              pw.camera_matrix)]
                    /\ lastWrite' = Written("on_processing_complete",
                                            FirstWithSettings(store), store)
       ELSE /\ pw' = [pw EXCEPT !.bAccept = FALSE]
            /\ UNCHANGED <<store, lastWrite>>
    /\ UNCHANGED <<files, win, persisted, active, dv, dw, runs, legacy, core>>

Perspective_on_exit_clicked ==
    /\ win = "perspective"
    /\ ShowSelect(store, persisted, active)
    /\ pw' = ClosedPerspective
    /\ threads' = Detached(threads)
    /\ UNCHANGED <<files, dv, dw, runs, lastWrite, legacy, core>>

\* closes the dialog and leaves through on_exit_clicked
Perspective_on_accept_clicked ==
    /\ pw.dialog
    /\ pw.bAccept
    /\ Perspective_on_exit_clicked

Perspective_on_cancel_clicked ==
    /\ win = "perspective"
    /\ pw.dialog
    /\ pw' = [pw EXCEPT !.dialog = FALSE, !.bStart = TRUE]
    /\ UNCHANGED <<files, threads, win, store, persisted, active, dv, dw,
                   runs, lastWrite, legacy, core>>

\* ------------------------------------------------------- the application
Init ==
    /\ InitApp
    /\ files = EmptyDirectory
    /\ threads = [t \in 1..MaxThreads |-> IdleThread]

Next ==
    \/ DeviceOpen
    \/ \E c \in Cams : DeviceSelect(c)
    \/ \E m \in Modes : DeviceSetMode(m)
    \/ SettingsWindow_on_ok_clicked
    \/ SettingsWindow_on_cancel_clicked
    \/ compute_translate
    \/ DistortionOpen
    \/ \E img \in FileKinds : on_sample_clicked(img)
    \/ on_undo_clicked
    \/ Distortion_start_processing_thread
    \/ \E t \in Threads : Distortion_on_processing_complete(t)
    \/ Distortion_on_accept_clicked
    \/ Distortion_on_cancel_clicked
    \/ Distortion_on_exit_clicked
    \/ PerspectiveOpen
    \/ on_start_clicked
    \/ \E img \in FileKinds : AutoCaptureSample(img)
    \/ Perspective_start_processing_thread
    \/ \E t \in Threads : Perspective_on_processing_complete(t)
    \/ Perspective_on_accept_clicked
    \/ Perspective_on_cancel_clicked
    \/ Perspective_on_exit_clicked
    \/ \E t \in Threads : ThreadBegin(t)
    \/ \E t \in Threads : ThreadLoop(t)
    \/ \E t \in Threads : ThreadThreshold(t)
    \/ \E t \in Threads : ThreadSolve(t)
    \/ \E t \in Threads : ThreadFinished(t)

Spec == Init /\ [][Next]_vars

\* ------------------------------------------- the two calibration windows
\* the settings file after a camera was set up and calibrated
CalibratedStore ==
    [c \in Cams |->
        IF c = Devices[1]
        THEN [present |-> TRUE, mode |-> DefaultMode, geometric |-> 1,
              perspective |-> NoPerspective]
        ELSE NoProfile]

\* the selection view with that camera active; a thread object can be
\* created while an earlier one still runs
InitWindow ==
    /\ win = "select"
    /\ store = CalibratedStore
    /\ persisted = Devices[1]
    /\ active = Devices[1]
    /\ dv = ClosedDevice
    /\ dw = ClosedDistortion
    /\ pw = ClosedPerspective
    /\ runs = 0
    /\ lastWrite = NothingWritten
    /\ legacy = LegacyFile
    /\ core = NoCall
    /\ files = EmptyDirectory
    /\ threads = [t \in 1..MaxWindowThreads |-> IdleThread]

NextWindow ==
    \/ DistortionOpen
    \/ \E img \in FileKinds : on_sample_clicked(img)
    \/ on_undo_clicked
    \/ Distortion_start_processing_thread
    \/ \E t \in Threads : Distortion_on_processing_complete(t)
    \/ Distortion_on_accept_clicked
    \/ Distortion_on_cancel_clicked
    \/ Distortion_on_exit_clicked
    \/ PerspectiveOpen
    \/ on_start_clicked
    \/ \E img \in FileKinds : AutoCaptureSample(img)
    \/ Perspective_start_processing_thread
    \/ \E t \in Threads : Perspective_on_processing_complete(t)
    \/ Perspective_on_accept_clicked
    \/ Perspective_on_cancel_clicked
    \/ Perspective_on_exit_clicked
    \/ \E t \in Threads : ThreadBegin(t)
    \/ \E t \in Threads : ThreadLoop(t)
    \/ \E t \in Threads : ThreadThreshold(t)
    \/ \E t \in Threads : ThreadSolve(t)
    \/ \E t \in Threads : ThreadFinished(t)

SpecWindow == InitWindow /\ [][NextWindow]_vars

\* ------------------------------------ the perspective window, with time
\* the timeout handler of auto_capture_timer
on_auto_capture_tick ==
    \/ \E img \in FileKinds : AutoCaptureSample(img)
    \/ Perspective_start_processing_thread

NextCapture ==
    \/ PerspectiveOpen
    \/ on_start_clicked
    \/ \E img \in FileKinds : AutoCaptureSample(img)
    \/ Perspective_start_processing_thread
    \/ \E t \in Threads : Perspective_on_processing_complete(t)
    \/ Perspective_on_accept_clicked
    \/ Perspective_on_cancel_clicked
    \/ Perspective_on_exit_clicked
    \/ \E t \in Threads : ThreadBegin(t)
    \/ \E t \in Threads : ThreadLoop(t)
    \/ \E t \in Threads : ThreadThreshold(t)
    \/ \E t \in Threads : ThreadSolve(t)
    \/ \E t \in Threads : ThreadFinished(t)

\* the timer is started by on_start_clicked and fires until it is stopped
SpecCapture ==
    InitWindow /\ [][NextCapture]_vars /\ WF_vars(on_auto_capture_tick)

\* ------------------------------------- the device window after a start
\* the profiles an earlier run of the application may have left in the file
SavedProfiles ==
    {NoProfile} \cup
    {[present |-> TRUE, mode |-> m, geometric |-> g,
      perspective |-> NoPerspective] : m \in Modes, g \in {0, 1}}

\* the process has just started: the runtime selection is None, the file is
\* as an earlier run left it, and the selection view has been shown
InitDevice ==
    /\ \E st \in [Cams -> SavedProfiles], p \in Cams \cup {NoCam} :
          /\ p # NoCam => st[p].present
          /\ store = st
          /\ persisted = ActiveAfterInfo(st, p, p)
          /\ active = ActiveAfterInfo(st, p, NoCam)
    /\ win = "select"
    /\ dv = ClosedDevice
    /\ dw = ClosedDistortion
    /\ pw = ClosedPerspective
    /\ runs = 0
    /\ lastWrite = NothingWritten
    /\ legacy = LegacyFile
    /\ core = NoCall
    /\ files = EmptyDirectory
    /\ threads = [t \in 1..MaxThreads |-> IdleThread]

NextDevice ==
    \/ DeviceOpen
    \/ \E c \in Cams : DeviceSelect(c)
    \/ \E m \in Modes : DeviceSetMode(m)
    \/ SettingsWindow_on_ok_clicked
    \/ SettingsWindow_on_cancel_clicked

SpecDevice == InitDevice /\ [][NextDevice]_vars

\* ------------------------------------------------- helper functions
\* the outcome of a call: the exception leaves the function, or a value
\* is returned
Raise(e) == [kind |-> "raise", value |-> e]

Return(v) == [kind |-> "result", value |-> v]

Call(f, a) == [fn |-> f, arg |-> a, out |-> NoCall.out]

\* the call in core is answered with outcome o
Answer(f, o) ==
    /\ core.fn = f
    /\ core.out.kind = "none"
    /\ core' = [core EXCEPT !.out = o]
    /\ UNCHANGED <<files, threads, win, store, persisted, active, dv, dw, pw,
                   runs, lastWrite, legacy>>

MarkerGroups == {"xt", "xb", "yl", "yr"}

\* a marker group without its key in the dict
Missing == -1

compute_world_axes_unchecked(markers) ==
    IF \E g \in MarkerGroups : markers[g] = Missing
    THEN Raise("ValueError")
    ELSE IF markers["xt"] = 0 \/ markers["xb"] = 0
    THEN Raise("ValueError")
    ELSE Return([fit |-> "lstsq"])

\* markerHelper.compute_world_axes_from_markers; markers gives the number
\* of points of each group
compute_world_axes_from_markers(markers) ==
    IF \E g \in MarkerGroups : markers[g] = Missing
    THEN Raise("ValueError")
    ELSE IF \E g \in MarkerGroups : markers[g] = 0
    THEN Raise("ValueError")
    ELSE Return([fit |-> IF markers["xt"] < 2 /\ markers["xb"] < 2
                         THEN "horizontal" ELSE "lstsq"])

\* cameraProcess.rot_scale: img.detected - the chessboard is found,
\* img.intrinsic - the active profile has an 'intrinsic' block with a
\* camera matrix, img.solved - solvePnP returns a pose
rot_scale(img) ==
    IF ~img.detected THEN Raise("ValueError")
    ELSE IF ~img.intrinsic THEN Raise("cv2.error")
    ELSE IF ~img.solved THEN Raise("ValueError")
    ELSE Return("roll_pitch_scale")

\* imageProcess.undistort_image: geom.matrix - the stored camera matrix
\* is 3x3, geom.dist - the stored coefficients are a vector
imageProcess_undistort_image(geom) ==
    IF ~geom.matrix THEN Raise("ValueError")
    ELSE IF ~geom.dist THEN Raise("ValueError")
    ELSE Return("undistorted")

\* ---------------------------------------------- storage convention
Angles == -MaxAngle..MaxAngle

\* what on_processing_complete stores for the raw tilt and yaw of a run:
\* the window of pi/src negates the tilt and shifts the yaw, the window
\* of pi/calibrationperspective.py stores them as they are
StoredAngles(copy, raw) ==
    IF copy = "helper"
    THEN [tilt |-> -raw.tilt, yaw |-> raw.yaw + HalfTurn]
    ELSE [tilt |-> raw.tilt, yaw |-> raw.yaw]

\* ------------------------------------------------ rotation candidates
Abs(x) == IF x < 0 THEN -x ELSE x

choose_first(z_a, z_b) == "a"

\* "R_a if abs(z_a) <= abs(z_b) else R_b"
choose(z_a, z_b) == IF Abs(z_a) <= Abs(z_b) THEN "a" ELSE "b"

RotationCopies == {"rectifyHelper", "caliPerspective", "caliOffset", "tool"}

\* build_rotation in each copy: the candidate it returns, with the
\* residual rotation of that candidate and of the other one
build_rotation(copy, z_a, z_b) ==
    LET c == choose(z_a, z_b)
    IN  [chosen |-> c,
         z |-> IF c = "a" THEN z_a ELSE z_b,
         other |-> IF c = "a" THEN z_b ELSE z_a]

\* ------------------------------------------------- canvas translation
\* coordinates of projected corners are counted in half pixels
Coords == -MaxCoord..MaxCoord

Corner == 1..4

\* the image that is rectified, in pixels
ImageSize == [w |-> 2, h |-> 1]

Max(a, b) == IF a >= b THEN a ELSE b

MinOf(S) == CHOOSE m \in S : \A x \in S : m <= x

MaxOf(S) == CHOOSE m \in S : \A x \in S : m >= x

\* np.floor and np.ceil of a number of half pixels, in pixels
Floor(half) == half \div 2

Ceil(half) == (half + 1) \div 2

\* "int(max(0, -np.floor(min_x)) + pad)"
translate_offset(min_half) == Max(0, -Floor(min_half)) + Pad

\* the canvas a consumer warps into and the place (in pixels) the
\* projected image gets in it; t is the stored translation of the axis,
\* shifted tells that one of the two translations is not 0, size is the
\* width or height of the image, max_half the largest corner coordinate
Canvas(consumer, size, max_half, t, shifted) ==
    IF consumer = "caliOffset"
    THEN IF shifted
         THEN Ceil(Max(2 * size, max_half + 2 * t + 2 * CanvasMargin))
         ELSE size
    ELSE IF consumer = "tool"
    THEN Ceil(Max(2 * size, max_half + 2 * t + 2 * Pad))
    ELSE size + Max(t, 0) + Max(-t, 0)

Placement(consumer, t) ==
    IF consumer \in {"caliOffset", "tool"} THEN t ELSE 0

Consumers == {"caliOffset", "tool", "rectifyHelper"}

\* translation, canvas and placement for the projected corners xs, ys
build_rectification(consumer, xs, ys) ==
    LET tx == translate_offset(MinOf({xs[k] : k \in Corner}))
        ty == translate_offset(MinOf({ys[k] : k \in Corner}))
    IN  [translate_x |-> tx, translate_y |-> ty,
         new_w |-> Canvas(consumer, ImageSize.w,
                          MaxOf({xs[k] : k \in Corner}), tx,
                          tx # 0 \/ ty # 0),
         new_h |-> Canvas(consumer, ImageSize.h,
                          MaxOf({ys[k] : k \in Corner}), ty,
                          tx # 0 \/ ty # 0),
         place_x |-> Placement(consumer, tx),
         place_y |-> Placement(consumer, ty)]

\* ---------------------------------------------------- pattern size
Boxes == 2..MaxBoxes

Unset == 0

inner_corners_same(n) == n

\* "boxes_x - 1"
inner_corners(n) == n - 1

Windows == {"caliDistortion", "caliPerspective", "caliOffset"}

\* the pattern a window detects, for the configured box counts (Unset:
\* the key is not in the settings); get_checkerboard_config, which the
\* distortion window calls, has a default for the pair only
checkerboard_size(window, boxes) ==
    IF window = "caliDistortion" /\ boxes.x = Unset /\ boxes.y = Unset
    THEN Return([x |-> inner_corners(DefaultBoxesX),
                 y |-> inner_corners(DefaultBoxesY)])
    ELSE IF window = "caliDistortion" /\ (boxes.x = Unset \/ boxes.y = Unset)
    THEN Raise("KeyError")
    ELSE Return([x |-> inner_corners(IF boxes.x = Unset THEN DefaultBoxesX
                                                        ELSE boxes.x),
                 y |-> inner_corners(IF boxes.y = Unset THEN DefaultBoxesY
                                                        ELSE boxes.y)])

\* -------------------------------------------------- active camera
\* the connected cameras, in the order of their device numbers
Connected(conn) == SelectSeq(Devices, LAMBDA d : d \in conn)

DefaultProfile ==
    [present |-> TRUE, mode |-> DefaultMode, geometric |-> 0,
     perspective |-> NoPerspective]

\* camera.update_active_camera_info with the cameras conn connected, the
\* settings file st and its active_camera entry pers, the runtime selection
\* cur: the camera returned (NoCam: None) and what is left behind
camera_update_active_camera_info(conn, st, pers, cur) ==
    IF pers # NoCam /\ pers \in conn
    THEN [ret |-> pers, store |-> st, persisted |-> pers, active |-> cur]
    ELSE IF Connected(conn) # <<>>
    THEN LET d == Connected(conn)[1]
         IN  IF st[d].present
             THEN [ret |-> d, store |-> st, persisted |-> d, active |-> d]
             ELSE [ret |-> d, store |-> st, persisted |-> pers,
                   active |-> cur]
    ELSE [ret |-> NoCam, store |-> st, persisted |-> pers, active |-> cur]

\* ------------------------------------------- order of detection
\* the candidate sizes of a batch, in the configured order
Sizes == <<1, 2>>

NoSize == 0

\* find_checkerboard_corners: the sizes in the order they are tried
sizes_to_try(detected) ==
    IF detected # NoSize /\ \E k \in 1..Len(Sizes) : Sizes[k] = detected
    THEN <<detected>> \o SelectSeq(Sizes, LAMBDA z : z # detected)
    ELSE Sizes

\* detected_checkerboard_size after a sample in which size was found: the
\* loop of compute_perspective_from_samples never assigns it
detected_after(kind, copy, detected, size) ==
    IF kind = "persp" /\ copy = "helper" THEN detected
    ELSE IF size # NoSize /\ detected = NoSize THEN size
    ELSE detected

\* a batch over the pictures imgs (the size each one shows, or NoSize)
DetectCall(kind, copy, imgs) ==
    [fn |-> "detect", arg |-> [kind |-> kind, copy |-> copy, imgs |-> imgs],
     out |-> NoCall.out, i |-> 1, detected |-> NoSize, tried |-> <<>>,
     found |-> <<>>]

\* one sample of the loop: which size is tried first, which is found
DetectStep ==
    /\ core.fn = "detect"
    /\ core.i <= MaxSamples
    /\ LET size == core.arg.imgs[core.i]
       IN  core' = [core EXCEPT
                !.i = @ + 1,
                !.tried = Append(@, sizes_to_try(core.detected)[1]),
                !.found = Append(@, size),
                !.detected = detected_after(core.arg.kind, core.arg.copy,
                                            core.detected, size)]
    /\ UNCHANGED <<files, threads, win, store, persisted, active, dv, dw, pw,
                   runs, lastWrite, legacy>>

\* ------------------------------------------ writes to the settings file
\* SettingsWindow.save_current_camera_settings of src/pi/settings.py: the
\* camera's entry afterwards
legacy_save_current_camera_settings(st, c, mode) ==
    [st EXCEPT ![c] = [present |-> TRUE, mode |-> mode, geometric |-> 0,
                       perspective |-> NoPerspective]]

\* a settings file that holds the entry `existing` for the first camera
OneProfile(existing) ==
    [c \in Cams |-> IF c = Devices[1] THEN existing ELSE NoProfile]

\* the copies of save_current_camera_settings
SaveCopies == {"appSettings", "settings"}

\* the entry of the first camera after OK in the device window of a copy
saved_entry(copy, existing, mode) ==
    IF copy = "appSettings"
    THEN save_current_camera_settings(OneProfile(existing), Devices[1],
                                      mode)[Devices[1]]
    ELSE legacy_save_current_camera_settings(OneProfile(existing),
                                             Devices[1], mode)[Devices[1]]

\* appSettings.set_active_camera: the globals are assigned first; the file
\* is written in a try block, and save_camera_settings returns False when
\* the write fails
set_active_camera(id, old, writable) ==
    [runtime |-> id,
     persisted |-> IF writable THEN id ELSE old.persisted]

\* ------------------------------------------ one call, all arguments
MarkerCalls ==
    {Call("compute_world_axes_from_markers", m) :
        m \in [MarkerGroups -> {Missing} \cup 0..MaxPoints]}

RotScaleCalls ==
    {Call("rot_scale", a) :
        a \in [detected : BOOLEAN, intrinsic : BOOLEAN, solved : BOOLEAN]}

UndistortCalls ==
    {Call("undistort_image", a) : a \in [matrix : BOOLEAN, dist : BOOLEAN]}

StoreAnglesCalls ==
    {Call("on_processing_complete", a) :
        a \in [copy : {"helper", "legacy"},
               raw : [tilt : Angles, yaw : Angles]]}

RotationCalls ==
    {Call("build_rotation", a) :
        a \in [copy : RotationCopies, z_a : Angles, z_b : Angles]}

RectifyCalls ==
    {Call("rectify_image", a) :
        a \in [consumer : Consumers, xs : [Corner -> Coords],
               ys : [Corner -> Coords]]}

PatternCalls ==
    {Call("get_checkerboard_config", a) :
        a \in [window : Windows,
               boxes : [x : Boxes \cup {Unset}, y : Boxes \cup {Unset}]]}

CameraInfoCalls ==
    {Call("update_active_camera_info", a) :
        a \in [conn : SUBSET Cams,
               st : [Cams -> {NoProfile, DefaultProfile}],
               pers : Cams \cup {NoCam}, cur : Cams \cup {NoCam}]}

\* a stored camera entry with or without calibration records
StoredProfiles ==
    {NoProfile} \cup
    [present : {TRUE}, mode : Modes, geometric : {0, 1},
     perspective : {NoPerspective, [tilt |-> 1, translate |-> 11]}]

SaveCalls ==
    {Call("save_current_camera_settings", a) :
        a \in [copy : SaveCopies, existing : StoredProfiles, mode : Modes]}

SetActiveCalls ==
    {Call("set_active_camera", a) :
        a \in [id : Cams,
               old : [runtime : Cams \cup {NoCam},
                      persisted : Cams \cup {NoCam}],
               writable : BOOLEAN]}

DetectCalls ==
    {DetectCall(kind, copy, imgs) :
        kind \in {"dist", "persp"}, copy \in {"helper", "legacy"},
        imgs \in [Samples -> {NoSize, Sizes[1], Sizes[2]}]}

InitCore ==
    /\ files = EmptyDirectory
    /\ threads = [t \in 1..MaxThreads |-> IdleThread]
    /\ win = "select"
    /\ store = [c \in Cams |-> NoProfile]
    /\ persisted = NoCam
    /\ active = NoCam
    /\ dv = ClosedDevice
    /\ dw = ClosedDistortion
    /\ pw = ClosedPerspective
    /\ runs = 0
    /\ lastWrite = NothingWritten
    /\ legacy = LegacyFile
    /\ \/ core \in MarkerCalls
       \/ core \in RotScaleCalls
       \/ core \in UndistortCalls
       \/ core \in StoreAnglesCalls
       \/ core \in RotationCalls
       \/ core \in RectifyCalls
       \/ core \in PatternCalls
       \/ core \in CameraInfoCalls
       \/ core \in DetectCalls
       \/ core \in SaveCalls
       \/ core \in SetActiveCalls

Call_compute_world_axes_from_markers ==
    Answer("compute_world_axes_from_markers",
           compute_world_axes_from_markers(core.arg))

Call_rot_scale == Answer("rot_scale", rot_scale(core.arg))

Call_undistort_image ==
    Answer("undistort_image", imageProcess_undistort_image(core.arg))

Call_on_processing_complete ==
    Answer("on_processing_complete",
           Return(StoredAngles(core.arg.copy, core.arg.raw)))

Call_build_rotation ==
    Answer("build_rotation",
           Return(build_rotation(core.arg.copy, core.arg.z_a, core.arg.z_b)))

Call_rectify_image ==
    Answer("rectify_image",
           Return(build_rectification(core.arg.consumer, core.arg.xs,
                                      core.arg.ys)))

Call_get_checkerboard_config ==
    Answer("get_checkerboard_config",
           checkerboard_size(core.arg.window, core.arg.boxes))

Call_update_active_camera_info ==
    Answer("update_active_camera_info",
           Return(camera_update_active_camera_info(
                      core.arg.conn, core.arg.st, core.arg.pers,
                      core.arg.cur)))

Call_save_current_camera_settings ==
    Answer("save_current_camera_settings",
           Return(saved_entry(core.arg.copy, core.arg.existing,
                              core.arg.mode)))

Call_set_active_camera ==
    Answer("set_active_camera",
           Return(set_active_camera(core.arg.id, core.arg.old,
                                    core.arg.writable)))

NextCore ==
    \/ Call_compute_world_axes_from_markers
    \/ Call_rot_scale
    \/ Call_undistort_image
    \/ Call_on_processing_complete
    \/ Call_build_rotation
    \/ Call_rectify_image
    \/ Call_get_checkerboard_config
    \/ Call_update_active_camera_info
    \/ Call_save_current_camera_settings
    \/ Call_set_active_camera
    \/ DetectStep

SpecCore == InitCore /\ [][NextCore]_vars

\* ------------------------------------------------------------ properties
Range(s) == {s[j] : j \in 1..Len(s)}

\* the samples of the directory in which the detector finds the pattern
Detectable == {j \in Samples : files[j] = "good"}

Terminals(ev) == {j \in 1..Len(ev) : ev[j].type = "complete"}

Failed(th) ==
    /\ th.pc = "done"
    /\ th.events # <<>>
    /\ Last(th.events).type = "complete"
    /\ ~Last(th.events).success

ThreadStep(t) ==
    ThreadBegin(t) \/ ThreadLoop(t) \/ ThreadThreshold(t) \/ ThreadSolve(t)

\* C1: with fewer than 3 detectable samples the batch never reaches the
\* solver (no partial calibration) and, once finished, has failed.
C1_NoPartialCalibration ==
    \A t \in Threads :
        (threads[t].pc # "idle" /\ Cardinality(Detectable) < MinSuccessful) =>
            /\ threads[t].solverCalls = 0
            /\ threads[t].pc # "solve"
            /\ (threads[t].pc = "done" => Failed(threads[t]))

C1_Witness ==
    \E t \in Threads :
        /\ threads[t].kind = "dist"
        /\ Cardinality(Detectable) = MinSuccessful - 1
        /\ Failed(threads[t])
        /\ Last(threads[t].events).count = MinSuccessful - 1

\* C2: the events of a run are progress events followed by exactly one
\* terminal event: at most one terminal event, nothing after it, a finished
\* run has emitted it, and an unfinished run can always take its next step.
C2_OneTerminalEvent ==
    \A t \in Threads :
        LET ev == threads[t].events
            pc == threads[t].pc
        IN  /\ Cardinality(Terminals(ev)) <= 1
            /\ \A j \in Terminals(ev) : j = Len(ev)
            /\ (pc = "done") <=> (Cardinality(Terminals(ev)) = 1)
            /\ (pc \notin {"idle", "done"}) => ENABLED ThreadStep(t)

\* a run that ended in the except-branch after the solver was called
C2_Witness ==
    \E t \in Threads :
        /\ threads[t].solverCalls = 1
        /\ Failed(threads[t])
        /\ Len(threads[t].events) >= 3

\* C5: a sample without a detectable pattern is left out and the loop goes
\* on: after the loop the accepted samples are exactly the detectable ones,
\* in order, and during the loop exactly those already passed.
C5_DetectionFailureIsLocal ==
    \A t \in Threads :
        LET th == threads[t]
        IN  /\ th.pc = "loop" =>
                  /\ Range(th.imgpoints) = {j \in Detectable : j < th.i}
                  /\ th.successful_images = Len(th.imgpoints)
            /\ (\/ th.pc \in {"check", "solve"}
                \/ th.pc = "done" /\ th.i > MaxSamples) =>
                  /\ Range(th.imgpoints) = Detectable
                  /\ th.successful_images = Cardinality(Detectable)
                  /\ \A a, b \in 1..Len(th.imgpoints) :
                        a < b => th.imgpoints[a] < th.imgpoints[b]

\* a sample that failed detection is followed by an accepted one
C5_Witness ==
    \E t \in Threads : \E a, b \in Samples :
        /\ a < b
        /\ files[a] = "bad"
        /\ threads[t].pc = "check"
        /\ b \in Range(threads[t].imgpoints)

\* C6: every batch-level failure (too few samples, or solver failure)
\* carries the number of samples whose detection succeeded.
C6_FailureCarriesCount ==
    \A t \in Threads :
        LET th == threads[t]
        IN  (/\ Failed(th)
             /\ th.i > MaxSamples
             /\ (th.kind = "dist" \/ th.matrix)) =>
                Last(th.events).count = Cardinality(Detectable)

\* C7 as stated: fewer than 3 solved poses give Failure
C7_FewerThanThreePosesFail ==
    \A t \in Threads :
        LET th == threads[t]
        IN  (/\ th.kind = "persp"
             /\ th.pc = "done"
             /\ th.solved < MinSuccessful) =>
                Failed(th)

\* C7 amended: perspective calibration returns Failure whenever fewer than
\* 3 samples have a detected pattern or no pose is solved.
C7_FewDetectionsOrNoPoseFail ==
    \A t \in Threads :
        LET th == threads[t]
        IN  (th.kind = "persp" /\ th.pc = "done" /\ th.i > MaxSamples
               /\ (Cardinality(Detectable) < MinSuccessful \/ th.solved = 0)) =>
                Failed(th)

\* all poses failed although enough samples were detected
C7_Witness ==
    \E t \in Threads :
        /\ threads[t].kind = "persp"
        /\ threads[t].matrix
        /\ threads[t].successful_images >= MinSuccessful
        /\ Failed(threads[t])
        /\ Last(threads[t].events).count = threads[t].successful_images

\* ----------------------------------------------- properties of the store
\* a step that leaves camera c without a record it had
Erased(c) ==
    \/ store[c].geometric # 0 /\ store'[c].geometric = 0
    \/ store[c].perspective # NoPerspective
         /\ store'[c].perspective = NoPerspective

\* a step in which a handler stores the result of a successful run
PersistsRun ==
    \/ Distortion_on_accept_clicked
    \/ \E t \in Threads : Perspective_on_processing_complete(t)

C4_PerspectiveNeedsIntrinsic ==
    /\ \A t \in Threads :
          (threads[t].pc # "idle" /\ threads[t].kind = "persp") =>
              threads[t].matrix
    /\ \A c \in Cams :
          store[c].perspective # NoPerspective => store[c].geometric # 0

\* C8: while a thread is in its loop over the samples, no step changes a
\* sample file it has not read yet
C8_SamplesFixedWhileRead ==
    [][\A t \in Threads :
          threads[t].pc \in {"begin", "loop"} =>
             \A j \in Samples :
                j >= threads[t].i => files'[j] = files[j]]_vars

Running(th) == th.pc \in {"begin", "loop", "check", "solve"}

\* C9: a thread that runs can always take its next step, and every step of
\* the application leaves it as it is or is its own next step: no handler
\* stops it, resets it or takes an event back (the connection of its
\* signals and the record of a later capture series are no part of the run)
C9_RunsToCompletion ==
    [][\A t \in Threads :
          Running(threads[t]) =>
             /\ ENABLED ThreadStep(t)
             /\ \/ ThreadStep(t)
                \/ [threads'[t] EXCEPT !.attached = TRUE, !.stale = TRUE]
                     = [threads[t] EXCEPT !.attached = TRUE,
                                          !.stale = TRUE]]_vars

\* the window was left, or its dialog cancelled, and the thread goes on
C9_Witness ==
    \E t \in Threads :
        /\ Running(threads[t])
        /\ threads[t].i > 1
        /\ \/ ~threads[t].attached
           \/ threads[t].kind = "dist" /\ ~dw.dialog
           \/ threads[t].kind = "persp" /\ ~pw.dialog

\* a step that changes the content of a record camera c has and keeps
GeometricChanged(c) ==
    /\ store[c].geometric # 0
    /\ store'[c].geometric # 0
    /\ store'[c].geometric # store[c].geometric

PerspectiveChanged(c) ==
    /\ store[c].perspective # NoPerspective
    /\ store'[c].perspective # NoPerspective
    /\ store'[c].perspective # store[c].perspective

LegacyChanged ==
    /\ legacy.perspective # NoPerspective
    /\ legacy'.perspective # NoPerspective
    /\ legacy' # legacy

\* the records of the application's store change only as a whole, in the
\* handler that stores the result of a run
SupersededByRun ==
    /\ \A c \in Cams : GeometricChanged(c) => Distortion_on_accept_clicked
    /\ \A c \in Cams :
          PerspectiveChanged(c) =>
             \E t \in Threads : Perspective_on_processing_complete(t)

\* C10 as stated: the content of a stored record changes only when a run
\* supersedes the record
C10_ImmutableAfterCreation == [][SupersededByRun /\ ~LegacyChanged]_vars

\* C10 amended: the content of a stored record changes only when a run
\* supersedes the record, except for translate_x and translate_y of a
\* perspective record, which compute_translate rewrites in place
C10_OnlyTranslateRewritten ==
    [][/\ SupersededByRun
       /\ LegacyChanged =>
             /\ compute_translate
             /\ legacy'.geometric = legacy.geometric
             /\ legacy'.perspective.tilt = legacy.perspective.tilt]_vars

\* compute_translate has rewritten the translation of the legacy record,
\* and a second distortion run has superseded a camera matrix
C10_Witness ==
    /\ legacy.perspective.translate # LegacyFile.perspective.translate
    /\ lastWrite.op = "on_accept_clicked"
    /\ lastWrite.geometric # 0
    /\ store[lastWrite.cam].geometric # lastWrite.geometric

\* ------------------------------------- properties of helper functions
Called(f) == core.fn = f /\ core.out.kind # "none"

\* C11: no helper function lets an exception leave it: every call ends
\* with a result or a failure value that is returned
C11_NothingRaised ==
    \A f \in {"compute_world_axes_from_markers", "rot_scale",
              "undistort_image"} :
        Called(f) => core.out.kind # "raise"

\* C12: the stored perspective record holds the negated raw tilt and the
\* raw yaw plus 180 degrees, whichever window stored it
C12_StoredConvention ==
    Called("on_processing_complete") =>
        /\ core.out.value.tilt = -core.arg.raw.tilt
        /\ core.out.value.yaw = core.arg.raw.yaw + HalfTurn

\* a corner (in half pixels) placed at p pixels lies in a canvas of n pixels
Inside(half, p, n) == 0 <= half + 2 * p /\ half + 2 * p < 2 * n

\* C13: the translations are not negative and every projected corner,
\* placed by them, lies inside the output canvas
C13_CornersInsideCanvas ==
    Called("rectify_image") =>
        LET o == core.out.value
        IN  /\ o.translate_x >= 0
            /\ o.translate_y >= 0
            /\ \A k \in Corner :
                  /\ Inside(core.arg.xs[k], o.place_x, o.new_w)
                  /\ Inside(core.arg.ys[k], o.place_y, o.new_h)

\* C14: in every copy the candidate returned has an absolute residual
\* rotation not larger than the other candidate's
C14_SmallerResidualChosen ==
    Called("build_rotation") =>
        /\ core.out.value.chosen = "a" =>
              Abs(core.arg.z_a) <= Abs(core.arg.z_b)
        /\ core.out.value.chosen = "b" =>
              Abs(core.arg.z_b) <= Abs(core.arg.z_a)

\* the second candidate is returned because its residual is smaller
C14_Witness ==
    /\ Called("build_rotation")
    /\ core.arg.copy = "caliPerspective"
    /\ core.out.value.chosen = "b"
    /\ Abs(core.arg.z_b) < Abs(core.arg.z_a)

\* the samples before j in which a pattern was found
FoundBefore(j) == {k \in 1..(j - 1) : core.found[k] # NoSize}

\* C15: once a size was found in a sample of the batch, every later
\* sample tries that size first
C15_DetectedSizeFirst ==
    core.fn = "detect" =>
        \A j \in 1..Len(core.tried) :
            FoundBefore(j) # {} =>
                core.tried[j] = core.found[MinOf(FoundBefore(j))]

\* C16: with an empty marker group the call fails and returns no frame
C16_EmptyGroupFails ==
    (/\ Called("compute_world_axes_from_markers")
     /\ \E g \in MarkerGroups : core.arg[g] = 0) =>
        core.out.kind = "raise"

\* only the left group is empty, and the call has failed
C16_Witness ==
    /\ Called("compute_world_axes_from_markers")
    /\ core.arg["yl"] = 0
    /\ \A g \in MarkerGroups \ {"yl"} : core.arg[g] > 0
    /\ core.out.kind = "raise"

\* C18: in every window the pattern has one inner corner less than the
\* configured boxes in each dimension
C18_InnerCornersAreBoxesMinusOne ==
    (/\ Called("get_checkerboard_config")
     /\ core.out.kind = "result"
     /\ core.arg.boxes.x # Unset
     /\ core.arg.boxes.y # Unset) =>
        /\ core.out.value.x = core.arg.boxes.x - 1
        /\ core.out.value.y = core.arg.boxes.y - 1

\* the perspective window with a configured board that is not the default
C18_Witness ==
    /\ Called("get_checkerboard_config")
    /\ core.arg.window = "caliPerspective"
    /\ core.arg.boxes = [x |-> MaxBoxes, y |-> MaxBoxes - 1]
    /\ core.out.value = [x |-> MaxBoxes - 1, y |-> MaxBoxes - 2]

\* C19: with the active camera not connected and no connected camera with
\* settings, the first connected camera gets a new profile, is made active
\* and is returned; None is returned only when no camera is connected
C19_NewProfileCreated ==
    Called("update_active_camera_info") =>
        LET a == core.arg
            o == core.out.value
        IN  /\ (o.ret = NoCam) <=> (a.conn = {})
            /\ (/\ a.pers \notin a.conn
                /\ a.conn # {}
                /\ \A c \in a.conn : ~a.st[c].present) =>
                   /\ o.ret = Connected(a.conn)[1]
                   /\ o.store[o.ret].present
                   /\ o.persisted = o.ret
                   /\ o.active = o.ret

\* ------------------------------------------ properties of the samples
\* a step that removes a sample file
SampleDeleted == \E j \in Samples : files[j] # "none" /\ files'[j] = "none"

\* a step in which the user accepts or cancels the result of a run
RunClosed ==
    \/ Distortion_on_accept_clicked
    \/ Distortion_on_cancel_clicked
    \/ Perspective_on_accept_clicked
    \/ Perspective_on_cancel_clicked

\* C17 as stated: when the result of a finished run is accepted or
\* cancelled, the samples are gone
C17_DiscardedAfterRun ==
    [][(RunClosed /\ \A t \in Threads : threads[t].pc = "idle") =>
          files' = EmptyDirectory]_vars

\* C17 amended: accepting or cancelling the result of a run leaves the
\* samples on disk; a sample is removed only by the first Sample click of
\* the next series, by Start in the perspective window, or by Undo
C17_KeptUntilNextSeries ==
    [][/\ RunClosed => files' = files
       /\ SampleDeleted =>
             \/ /\ dw.current_sample = 0
                /\ \E img \in FileKinds : on_sample_clicked(img)
             \/ on_undo_clicked
             \/ on_start_clicked]_vars

\* a run was accepted, its thread has ended, and every sample is on disk
C17_Witness ==
    /\ win = "select"
    /\ lastWrite.op = "on_accept_clicked"
    /\ \A t \in Threads : threads[t].pc = "idle"
    /\ \A j \in Samples : files[j] # "none"

\* a step that writes the result of a run to the settings file
ResultWritten ==
    \E c \in Cams :
        \/ /\ store'[c].geometric # store[c].geometric
           /\ store'[c].geometric # 0
        \/ /\ store'[c].perspective # store[c].perspective
           /\ store'[c].perspective # NoPerspective

\* C20: the result of a run is written to the settings file only by
\* Accept; until then the stored calibration is as it was before the run
C20_WrittenOnlyOnAccept ==
    [][ResultWritten =>
          \/ Distortion_on_accept_clicked
          \/ Perspective_on_accept_clicked]_vars


\* a thread of the window that is shown, whose batch has not ended
Unfinished(th, kind) ==
    th.kind = kind /\ th.attached /\ th.pc # "idle"

\* the thread that was started last
Latest(th) == th.run = runs

\* C21: Accept is enabled only when the batch started last has ended with
\* success: the only step that enables it is the success event of that
\* batch, and it is never enabled while a processing dialog waits for its
\* thread or while the batch started last has not ended
C21_AcceptOnlyForLatestBatch ==
    [][/\ dw'.bAccept =>
            /\ ~dw'.pending
            /\ \A t \in Threads :
                  Unfinished(threads'[t], "dist") => threads'[t].run # runs'
            /\ dw.bAccept \/
                  \E t \in Threads :
                     /\ Latest(threads[t])
                     /\ Last(threads[t].events).success
                     /\ Distortion_on_processing_complete(t)
       /\ pw'.bAccept =>
            /\ \A t \in Threads :
                  Unfinished(threads'[t], "persp") => threads'[t].run # runs'
            /\ pw.bAccept \/
                  \E t \in Threads :
                     /\ Latest(threads[t])
                     /\ Last(threads[t].events).success
                     /\ Perspective_on_processing_complete(t)]_vars

\* the threads of the window that is shown which are running
RunningOf(kind) ==
    {t \in Threads : Unfinished(threads[t], kind) /\ Running(threads[t])}

\* C22: at most one processing thread of a calibration window runs at any
\* time
C22_OneThreadPerWindow ==
    /\ Cardinality(RunningOf("dist")) <= 1
    /\ Cardinality(RunningOf("persp")) <= 1

\* C23: every image a batch reads was captured in the capture series that
\* started the batch: no thread reads a sample file after another series
\* has begun in the directory
C23_ReadsOwnSeries ==
    [][\A t \in Threads :
          (ThreadLoop(t) /\ files[threads[t].i] # "none") =>
              ~threads[t].stale]_vars


\* C24: while the device settings window is shown, the active camera (the
\* runtime value and the persisted entry) changes only by OK; Cancel leaves
\* the runtime value the one recorded when the window was opened and the
\* persisted entry as it is
C24_ActiveChangesOnlyOnOk ==
    [][/\ (win = "device" /\ ~SettingsWindow_on_ok_clicked) =>
             (active' = active /\ persisted' = persisted)
       /\ SettingsWindow_on_cancel_clicked =>
             (active' = dv.previous /\ persisted' = persisted)
       /\ win = "device" => dv.previous = active]_vars

\* another camera than the active one is selected in the window
C24_Witness ==
    /\ win = "device"
    /\ dv.previous # NoCam
    /\ dv.camera # NoCam
    /\ dv.camera # dv.previous


\* C25: a save of the device settings with the stored format, resolution
\* and fps leaves the calibration records of the camera's entry as they
\* are, in each copy of save_current_camera_settings
C25_UnchangedModeKeepsCalibration ==
    (/\ Called("save_current_camera_settings")
     /\ core.arg.existing.present
     /\ core.arg.existing.mode = core.arg.mode) =>
        /\ core.out.value.geometric = core.arg.existing.geometric
        /\ core.out.value.perspective = core.arg.existing.perspective

\* C26: when set_active_camera has returned, the runtime selection and the
\* persisted active_camera entry are both the camera it was called with
C26_RuntimeAndPersistedAgree ==
    Called("set_active_camera") =>
        /\ core.out.kind = "result"
        /\ core.out.value.runtime = core.arg.id
        /\ core.out.value.persisted = core.arg.id


\* auto-capture runs and the thread it will start can still be started
Capturing ==
    win = "perspective" /\ pw.auto_capture_active /\ runs < MaxRuns

\* C27: the perspective window is never left with capture stopped, no
\* dialog and Start disabled, and once Start was clicked auto-capture
\* ends: processing starts, or Start is enabled again (or the window is
\* left)
C27_NeverStuck ==
    /\ []((win = "perspective" /\ ~pw.auto_capture_active /\ ~pw.dialog)
             => pw.bStart)
    /\ Capturing ~> (pw.dialog \/ pw.bStart \/ win # "perspective")

====
